---------------------------- MODULE Spec2Model ----------------------------
(***************************************************************************)
(* Model of seqtools/indexing.py: the lazy views Reindexing (take),        *)
(* Cycle / InfiniteCycle (cycle) and Repetition / InfiniteRepetition       *)
(* (repeat) over one mutable base list S.                                  *)
(*                                                                         *)
(* A Python value that may be None is modelled as a set: {} is None and    *)
(* {n} is the integer n.  The outcome of a call is a record holding the    *)
(* exception raised ("none" when the call returned), the returned item     *)
(* and, for calls that return a sequence, its elements in order.           *)
(***************************************************************************)
EXTENDS Integers, Sequences, FiniteSets, TLC

(* ------------------------------ bounds --------------------------------- *)
MaxVal == 1
MaxBaseLen == 2
MaxIdxLen == 2
MaxSize == 3
MaxStop == 4
MaxStep == 3
MaxRhs == 2
MaxKey == 1

Values == 0..MaxVal
Lists == UNION {[1..n -> Values] : n \in 0..MaxBaseLen}
IdxLists == UNION {[1..n -> (-1)..MaxBaseLen] : n \in 0..MaxIdxLen}
RhsLists == UNION {[1..n -> Values] : n \in 0..MaxRhs}

(* ------------------------- Python primitives --------------------------- *)
None == {}
Some(n) == {n}
Val(x) == CHOOSE n \in x : TRUE
OrElse(x, d) == IF x = None THEN d ELSE Val(x)

OptInts(lo, hi) == {None} \cup {Some(n) : n \in lo..hi}
Slices(lo, hi, steps) == [start : OptInts(lo, hi), stop : OptInts(lo, hi), step : steps]
NoSlice == [start |-> None, stop |-> None, step |-> None]

(* a % b and a // b of Python for a divisor b > 0 *)
PyMod(a, b) == a % b
PyFloorDiv(a, b) == IF b > 0 THEN a \div b ELSE (-a) \div (-b)

Min(a, b) == IF a < b THEN a ELSE b
Max(a, b) == IF a > b THEN a ELSE b

(* len(range(start, stop, step)), step # 0 *)
RangeLen(start, stop, step) ==
    IF step > 0
    THEN IF start < stop THEN ((stop - start - 1) \div step) + 1 ELSE 0
    ELSE IF start > stop THEN ((start - stop - 1) \div (-step)) + 1 ELSE 0

(* list(range(start, stop, step)) *)
Range(start, stop, step) ==
    [i \in 1..RangeLen(start, stop, step) |-> start + (i - 1) * step]

(* slice.indices(n) followed by range(): the positions a slice selects in *)
(* a plain sequence of length n; the step is not zero                     *)
SliceIndices(sl, n) ==
    LET step == OrElse(sl.step, 1)
        lower == IF step > 0 THEN 0 ELSE -1
        upper == IF step > 0 THEN n ELSE n - 1
        clamp(x) == IF x < 0 THEN Max(x + n, lower) ELSE Min(x, upper)
        start == IF sl.start = None
                 THEN (IF step < 0 THEN upper ELSE lower)
                 ELSE clamp(Val(sl.start))
        stop == IF sl.stop = None
                THEN (IF step < 0 THEN lower ELSE upper)
                ELSE clamp(Val(sl.stop))
    IN Range(start, stop, step)

(* outcome records *)
Returned(v) == [exc |-> "none", val |-> {v}, items |-> <<>>]
ReturnedSeq(s) == [exc |-> "none", val |-> {}, items |-> s]
ReturnedNone == [exc |-> "none", val |-> {}, items |-> <<>>]
Raise(e) == [exc |-> e, val |-> {}, items |-> <<>>]

(* list.__getitem__ / list.__setitem__ with an integer index *)
ListInRange(L, i) == -Len(L) <= i /\ i < Len(L)
ListPos(L, i) == IF i < 0 THEN Len(L) + i + 1 ELSE i + 1
ListGet(L, i) == IF ListInRange(L, i) THEN Returned(L[ListPos(L, i)]) ELSE Raise("IndexError")
ListSet(L, i, v) ==
    IF ListInRange(L, i)
    THEN [exc |-> "none", S |-> [L EXCEPT ![ListPos(L, i)] = v]]
    ELSE [exc |-> "IndexError", S |-> L]

(* indexes[key] for a slice key: a ValueError when the step is zero *)
ListSlice(L, sl) ==
    IF sl.step = Some(0) THEN Raise("ValueError")
    ELSE LET pos == SliceIndices(sl, Len(L))
         IN ReturnedSeq([i \in 1..Len(pos) |-> L[pos[i] + 1]])

(* ------------------------------ state ---------------------------------- *)
(* S: the base list; V, W: take views; cyc, rep: the cycle and repeat     *)
(* views; inp: the slice and the right-hand sequence of the slice          *)
(* statements of this run; call, ret: the last call and its outcome;       *)
(* old: the base list and the repeated value before the last call          *)
VARIABLES S, V, W, cyc, rep, inp, call, ret, old
vars == <<S, V, W, cyc, rep, inp, call, ret, old>>

NoView == [sequence |-> "none", indexes |-> <<>>]
NoCycle == [kind |-> "none", size |-> 0]
NoRepeat == [kind |-> "none", value |-> 0, times |-> 0]
NoCall == [op |-> "none", key |-> 0, sl |-> NoSlice, value |-> 0, values |-> <<>>]
Call(op, key, sl, value, values) ==
    [op |-> op, key |-> key, sl |-> sl, value |-> value, values |-> values]
Snapshot == [S |-> S, value |-> rep.value, times |-> rep.times]

(* ----------------------------- Reindexing ------------------------------ *)
IsReindexing(ref) == ref = "V"

(* Reindexing.__init__(sequence, indexes); v is the view a reference "V"  *)
(* denotes.  The composition of a nested view reads v.indexes[i] with the *)
(* list's own index rules and fails on an index out of its range.         *)
ReindexingInitNoFlatten(ref, indexes, v) ==
    [exc |-> "none", view |-> [sequence |-> ref, indexes |-> indexes]]
Reindexing_init(ref, indexes, v) ==
    IF IsReindexing(ref)
    THEN IF \A j \in 1..Len(indexes) : ListInRange(v.indexes, indexes[j])
         THEN [exc |-> "none",
               view |-> [sequence |-> v.sequence,
                         indexes |-> [j \in 1..Len(indexes) |->
                                         v.indexes[ListPos(v.indexes, indexes[j])]]]]
         ELSE [exc |-> "IndexError", view |-> NoView]
    ELSE [exc |-> "none", view |-> [sequence |-> ref, indexes |-> indexes]]

take(ref, indexes, v) == Reindexing_init(ref, indexes, v)

Reindexing_len(view) == Len(view.indexes)

RECURSIVE Reindexing_getitem(_, _, _, _)
SeqGet(ref, i, s, v) ==
    IF IsReindexing(ref) THEN Reindexing_getitem(v, i, s, v) ELSE ListGet(s, i)
ReindexingGetitemNoMap(view, key, s, v) ==
    IF key < -Reindexing_len(view) \/ key >= Reindexing_len(view)
    THEN Raise("IndexError")
    ELSE SeqGet(view.sequence, IF key < 0 THEN Reindexing_len(view) + key ELSE key, s, v)
Reindexing_getitem(view, key, s, v) ==
    IF key < -Reindexing_len(view) \/ key >= Reindexing_len(view)
    THEN Raise("IndexError")
    ELSE LET k == IF key < 0 THEN Reindexing_len(view) + key ELSE key
         IN SeqGet(view.sequence, view.indexes[k + 1], s, v)

RECURSIVE Reindexing_setitem(_, _, _, _, _)
SeqSet(ref, i, value, s, v) ==
    IF IsReindexing(ref) THEN Reindexing_setitem(v, i, value, s, v) ELSE ListSet(s, i, value)
Reindexing_setitem(view, key, value, s, v) ==
    IF key < -Reindexing_len(view) \/ key >= Reindexing_len(view)
    THEN [exc |-> "IndexError", S |-> s]
    ELSE LET k == IF key < 0 THEN Reindexing_len(view) + key ELSE key
         IN SeqSet(view.sequence, view.indexes[k + 1], value, s, v)

(* for i, v in zip(indexes, value): self.sequence[i] = v                   *)
(* the writes happen one by one and stop at the first one that raises      *)
RECURSIVE ZipAssign(_, _, _, _, _)
ZipAssign(ref, indexes, value, s, v) ==
    IF indexes = <<>> \/ value = <<>> THEN [exc |-> "none", S |-> s]
    ELSE LET w == SeqSet(ref, Head(indexes), Head(value), s, v)
         IN IF w.exc # "none" THEN w
            ELSE ZipAssign(ref, Tail(indexes), Tail(value), w.S, v)

Reindexing_setslice(view, sl, value, s, v) ==
    LET indexes == ListSlice(view.indexes, sl)
    IN IF indexes.exc # "none" THEN [exc |-> indexes.exc, S |-> s]
       ELSE IF Len(indexes.items) # Len(value) THEN [exc |-> "ValueError", S |-> s]
       ELSE ZipAssign(view.sequence, indexes.items, value, s, v)

(* ------------------------- actions on a take view ---------------------- *)
TakeKeys == (-MaxIdxLen - 1)..MaxIdxLen
TakeSlices == Slices(0, MaxIdxLen, {None, Some(-1), Some(0)})
NoInput == [sl |-> NoSlice, values |-> <<>>]

(* S[i] = v made directly on the base, outside any view *)
BaseSetItem ==
    \E i \in 0..(Len(S) - 1), v \in Values :
        /\ S' = [S EXCEPT ![i + 1] = v]
        /\ call' = Call("S.set", i, NoSlice, v, <<>>)
        /\ ret' = ReturnedNone
        /\ old' = Snapshot
        /\ UNCHANGED <<V, W, cyc, rep, inp>>

(* V[key] *)
ViewGetItem ==
    \E key \in TakeKeys :
        /\ call' = Call("V.get", key, NoSlice, 0, <<>>)
        /\ ret' = Reindexing_getitem(V, key, S, V)
        /\ old' = Snapshot
        /\ UNCHANGED <<S, V, W, cyc, rep, inp>>

(* V[key] = value *)
ViewSetItem ==
    \E key \in TakeKeys, value \in Values :
        LET r == Reindexing_setitem(V, key, value, S, V)
        IN /\ S' = r.S
           /\ call' = Call("V.set", key, NoSlice, value, <<>>)
           /\ ret' = IF r.exc = "none" THEN ReturnedNone ELSE Raise(r.exc)
           /\ old' = Snapshot
           /\ UNCHANGED <<V, W, cyc, rep, inp>>

(* V[inp.sl] = inp.values *)
ViewSetSlice ==
    LET r == Reindexing_setslice(V, inp.sl, inp.values, S, V)
    IN  /\ S' = r.S
        /\ call' = Call("V.setslice", 0, inp.sl, 0, inp.values)
        /\ ret' = IF r.exc = "none" THEN ReturnedNone ELSE Raise(r.exc)
        /\ old' = Snapshot
        /\ UNCHANGED <<V, W, cyc, rep, inp>>

InitTake ==
    /\ S \in Lists
    /\ \E I \in IdxLists : V = take("S", I, NoView).view
    /\ W = NoView
    /\ cyc = NoCycle
    /\ rep = NoRepeat
    /\ inp = NoInput
    /\ call = NoCall
    /\ ret = ReturnedNone
    /\ old = Snapshot

NextTake == BaseSetItem \/ ViewGetItem \/ ViewSetItem
SpecTake == InitTake /\ [][NextTake]_vars

InitSlice ==
    /\ S \in Lists
    /\ \E I \in IdxLists : V = take("S", I, NoView).view
    /\ W = NoView
    /\ cyc = NoCycle
    /\ rep = NoRepeat
    /\ inp \in [sl : TakeSlices, values : RhsLists]
    /\ call = NoCall
    /\ ret = ReturnedNone
    /\ old = Snapshot

NextSlice == ViewSetSlice \/ ViewGetItem
SpecSlice == InitSlice /\ [][NextSlice]_vars

(* ------------------------------ take: claims --------------------------- *)
ValidFor(I, s) == \A j \in 1..Len(I) : 0 <= I[j] /\ I[j] < Len(s)
Resolve(k, n) == IF k >= 0 THEN k ELSE n + k

(* C1: with every entry of I inside [0, len(S)), after any writes made to  *)
(* S directly or through V = take(S, I), every k in [-len(I), len(I))      *)
(* reads V[k] = S[I[k']] with k' = k or len(I) + k, and a write V[k] = v   *)
(* leaves S[I[k']] = v.                                                    *)
C1_TakeReadsAndWritesThrough ==
    ValidFor(V.indexes, S) =>
        LET I == V.indexes
            n == Len(I)
        IN /\ \A k \in (-n)..(n - 1) :
                  Reindexing_getitem(V, k, S, V) = Returned(S[I[Resolve(k, n) + 1] + 1])
           /\ (call.op = "V.get" /\ call.key \in (-n)..(n - 1)) =>
                  ret = Returned(S[I[Resolve(call.key, n) + 1] + 1])
           /\ (call.op = "V.set" /\ call.key \in (-n)..(n - 1)) =>
                  /\ ret.exc = "none"
                  /\ S[I[Resolve(call.key, n) + 1] + 1] = call.value
                  /\ \A p \in 1..Len(S) :
                         p # I[Resolve(call.key, n) + 1] + 1 => S[p] = old.S[p]

C1_Witness ==
    /\ ValidFor(V.indexes, S)
    /\ Len(V.indexes) = 2
    /\ V.indexes[1] # V.indexes[2]
    /\ call.op = "V.set"
    /\ call.key = -1
    /\ ret.exc = "none"
    /\ S # old.S

(* C8: a slice assignment V[s] = value either performs every paired write  *)
(* of zip(I[s], value) or fails and leaves every position of S unchanged.  *)
C8_SliceAssignmentAllOrNothing ==
    call.op = "V.setslice" =>
        \/ ret.exc # "none" /\ S = old.S
        \/ /\ ret.exc = "none"
           /\ LET idx == ListSlice(V.indexes, call.sl).items
              IN /\ Len(idx) = Len(call.values)
                 /\ \A j \in 1..Len(idx) :
                        /\ ListInRange(S, idx[j])
                        /\ (\A m \in (j + 1)..Len(idx) :
                                ListPos(S, idx[m]) # ListPos(S, idx[j]))
                           => S[ListPos(S, idx[j])] = call.values[j]

(* ----------------------------- nested take ----------------------------- *)
(* W = take(V, inp.values) *)
TakeNested ==
    LET r == take("V", inp.values, V)
    IN  /\ W' = r.view
        /\ call' = Call("take", 0, NoSlice, 0, inp.values)
        /\ ret' = IF r.exc = "none" THEN ReturnedNone ELSE Raise(r.exc)
        /\ old' = Snapshot
        /\ UNCHANGED <<S, V, cyc, rep, inp>>

(* W[key] *)
NestedGetItem ==
    \E key \in TakeKeys :
        /\ W # NoView
        /\ call' = Call("W.get", key, NoSlice, 0, <<>>)
        /\ ret' = Reindexing_getitem(W, key, S, V)
        /\ old' = Snapshot
        /\ UNCHANGED <<S, V, W, cyc, rep, inp>>

(* W[key] = value *)
NestedSetItem ==
    \E key \in TakeKeys, value \in Values :
        LET r == Reindexing_setitem(W, key, value, S, V)
        IN /\ W # NoView
           /\ S' = r.S
           /\ call' = Call("W.set", key, NoSlice, value, <<>>)
           /\ ret' = IF r.exc = "none" THEN ReturnedNone ELSE Raise(r.exc)
           /\ old' = Snapshot
           /\ UNCHANGED <<V, W, cyc, rep, inp>>

InitNest ==
    /\ S \in Lists
    /\ \E I \in IdxLists : V = take("S", I, NoView).view
    /\ W = NoView
    /\ cyc = NoCycle
    /\ rep = NoRepeat
    /\ inp \in [sl : {NoSlice}, values : IdxLists]
    /\ call = NoCall
    /\ ret = ReturnedNone
    /\ old = Snapshot

NextNest == TakeNested \/ NestedGetItem \/ NestedSetItem \/ BaseSetItem
SpecNest == InitNest /\ [][NextNest]_vars

(* C2: for I valid for S and J valid for take(S, I), W = take(take(S, I),  *)
(* J) has S itself as its stored base and [I[j] for j in J] as its stored  *)
(* indexes, reads W[k] = S[I[J[k]]] for every k in range, and a write      *)
(* W[k] = v sets S[I[J[k]]] to v.                                          *)
C2_NestedTakeIsFlattened ==
    LET I == V.indexes
        J == inp.values
    IN (W # NoView /\ ValidFor(I, S) /\ ValidFor(J, I)) =>
           /\ W.sequence = "S"
           /\ W.indexes = [k \in 1..Len(J) |-> I[J[k] + 1]]
           /\ \A k \in 0..(Len(J) - 1) :
                  Reindexing_getitem(W, k, S, V) = Returned(S[I[J[k + 1] + 1] + 1])
           /\ (call.op = "W.get" /\ call.key \in 0..(Len(J) - 1)) =>
                  ret = Returned(S[I[J[call.key + 1] + 1] + 1])
           /\ (call.op = "W.set" /\ call.key \in 0..(Len(J) - 1)) =>
                  /\ ret.exc = "none"
                  /\ S[I[J[call.key + 1] + 1] + 1] = call.value

C2_Witness ==
    /\ W # NoView
    /\ ValidFor(V.indexes, S)
    /\ ValidFor(inp.values, V.indexes)
    /\ Len(inp.values) = 2
    /\ V.indexes = <<1, 0>>
    /\ inp.values = <<1, 0>>
    /\ call.op = "W.set"
    /\ call.key = 1
    /\ S # old.S

(* ------------------------- bounded view protocol ----------------------- *)
(* len(view): Python rejects a negative __len__ with a ValueError *)
PyLen(n) == IF n < 0 THEN [exc |-> "ValueError", n |-> 0] ELSE [exc |-> "none", n |-> n]

(* the integer branch of basic_getitem / basic_setitem: the shared bounds  *)
(* check of the bounded views, followed by the resolution of a negative    *)
(* key; n is the view's __len__                                            *)
basic_index(n, key) ==
    IF PyLen(n).exc # "none" THEN [exc |-> PyLen(n).exc, key |-> 0]
    ELSE IF key < -n \/ key >= n THEN [exc |-> "IndexError", key |-> 0]
    ELSE [exc |-> "none", key |-> IF key < 0 THEN n + key ELSE key]

(* the slice branch of basic_getitem: the positions of the view that a     *)
(* slice selects, by the rules of a plain sequence of the view's length    *)
basic_slice(n, sl) ==
    IF PyLen(n).exc # "none" THEN [exc |-> PyLen(n).exc, pos |-> <<>>]
    ELSE IF sl.step = Some(0) THEN [exc |-> "ValueError", pos |-> <<>>]
    ELSE [exc |-> "none", pos |-> SliceIndices(sl, n)]

(* -------------------------------- Cycle -------------------------------- *)
Cycle_init(size) == [kind |-> "Cycle", size |-> size]
InfiniteCycle_init == [kind |-> "InfiniteCycle", size |-> 0]
Cycle_len(c) == c.size

(* the body of Cycle.__getitem__, key already resolved *)
CycleItemNoModulo(key, s) == ListGet(s, key)
Cycle_item(key, s) ==
    IF Len(s) = 0 THEN Raise("ZeroDivisionError") ELSE ListGet(s, PyMod(key, Len(s)))

Cycle_getitem(c, key, s) ==
    LET k == basic_index(Cycle_len(c), key)
    IN IF k.exc # "none" THEN Raise(k.exc) ELSE Cycle_item(k.key, s)

(* the body of Cycle.__setitem__, key already resolved *)
Cycle_store(key, value, s) ==
    IF Len(s) = 0 THEN [exc |-> "ZeroDivisionError", S |-> s]
    ELSE ListSet(s, PyMod(key, Len(s)), value)

Cycle_setitem(c, key, value, s) ==
    LET k == basic_index(Cycle_len(c), key)
    IN IF k.exc # "none" THEN [exc |-> k.exc, S |-> s] ELSE Cycle_store(k.key, value, s)

(* Cycle.__iter__ run to its end: range(size) is empty for size <= 0 *)
Cycle_iter(c, s) ==
    IF c.size > 0 /\ Len(s) = 0 THEN Raise("ZeroDivisionError")
    ELSE ReturnedSeq([i \in 1..c.size |-> s[PyMod(i - 1, Len(s)) + 1]])

(* Cycle(...)[sl], read out element by element *)
Cycle_getslice(c, sl, s) ==
    LET p == basic_slice(Cycle_len(c), sl)
    IN IF p.exc # "none" THEN Raise(p.exc)
       ELSE IF Len(p.pos) > 0 /\ Len(s) = 0 THEN Raise("ZeroDivisionError")
       ELSE ReturnedSeq([i \in 1..Len(p.pos) |-> Val(Cycle_item(p.pos[i], s).val)])

(* InfiniteCycle.__getitem__ with an integer key *)
InfiniteCycle_getitem(key, s) ==
    IF key < 0 THEN Raise("IndexError")
    ELSE IF Len(s) = 0 THEN Raise("ZeroDivisionError")
    ELSE ListGet(s, PyMod(key, Len(s)))

(* InfiniteCycle.__getitem__ with a slice key *)
InfiniteCycle_getslice(sl, s) ==
    LET start == OrElse(sl.start, 0)
    IN IF start < 0 \/ sl.stop = None \/ OrElse(sl.stop, 0) < 0 THEN Raise("IndexError")
       ELSE IF Len(s) = 0 THEN Raise("ZeroDivisionError")
       ELSE LET offset == start - PyMod(start, Len(s))
                start2 == start - offset
                stop2 == Val(sl.stop) - offset
            IN Cycle_getslice(Cycle_init(stop2),
                              [start |-> Some(start2), stop |-> Some(stop2), step |-> sl.step],
                              s)

(* cycle(sequence, limit) *)
cycle(limit) == IF limit = None THEN InfiniteCycle_init ELSE Cycle_init(Val(limit))

(* --------------------------- actions on cycles ------------------------- *)
CycleKeys == (-MaxSize - 1)..MaxSize
CycleSlices == Slices(-1, MaxStop, {None, Some(-1), Some(0), Some(1), Some(2)})

(* cyc = cycle(S, limit) *)
CycleFactory ==
    \E limit \in OptInts(-1, MaxSize) :
        /\ cyc' = cycle(limit)
        /\ call' = Call("cycle", OrElse(limit, 0), [NoSlice EXCEPT !.stop = limit], 0, <<>>)
        /\ ret' = ReturnedNone
        /\ old' = Snapshot
        /\ UNCHANGED <<S, V, W, rep, inp>>

(* cyc[key] on a bounded cycle *)
CycleGetItem ==
    \E key \in CycleKeys :
        /\ cyc.kind = "Cycle"
        /\ call' = Call("C.get", key, NoSlice, 0, <<>>)
        /\ ret' = Cycle_getitem(cyc, key, S)
        /\ old' = Snapshot
        /\ UNCHANGED <<S, V, W, cyc, rep, inp>>

(* cyc[key] = value on a bounded cycle *)
CycleSetItem ==
    \E key \in CycleKeys, value \in Values :
        LET r == Cycle_setitem(cyc, key, value, S)
        IN /\ cyc.kind = "Cycle"
           /\ S' = r.S
           /\ call' = Call("C.set", key, NoSlice, value, <<>>)
           /\ ret' = IF r.exc = "none" THEN ReturnedNone ELSE Raise(r.exc)
           /\ old' = Snapshot
           /\ UNCHANGED <<V, W, cyc, rep, inp>>

(* list(cyc) on a bounded cycle *)
CycleIterate ==
    /\ cyc.kind = "Cycle"
    /\ call' = Call("C.iter", 0, NoSlice, 0, <<>>)
    /\ ret' = Cycle_iter(cyc, S)
    /\ old' = Snapshot
    /\ UNCHANGED <<S, V, W, cyc, rep, inp>>

(* cyc[key] on an unbounded cycle *)
InfiniteCycleGetItem ==
    \E key \in (-1)..MaxStop :
        /\ cyc.kind = "InfiniteCycle"
        /\ call' = Call("IC.get", key, NoSlice, 0, <<>>)
        /\ ret' = InfiniteCycle_getitem(key, S)
        /\ old' = Snapshot
        /\ UNCHANGED <<S, V, W, cyc, rep, inp>>

(* cyc[inp.sl] on an unbounded cycle *)
InfiniteCycleGetSlice ==
    /\ cyc.kind = "InfiniteCycle"
    /\ call' = Call("IC.getslice", 0, inp.sl, 0, <<>>)
    /\ ret' = InfiniteCycle_getslice(inp.sl, S)
    /\ old' = Snapshot
    /\ UNCHANGED <<S, V, W, cyc, rep, inp>>

InitCycle ==
    /\ S \in Lists
    /\ V = NoView
    /\ W = NoView
    /\ cyc = NoCycle
    /\ rep = NoRepeat
    /\ inp = NoInput
    /\ call = NoCall
    /\ ret = ReturnedNone
    /\ old = Snapshot

NextCycle ==
    \/ CycleFactory
    \/ CycleGetItem
    \/ CycleSetItem
    \/ CycleIterate
    \/ InfiniteCycleGetItem
    \/ BaseSetItem
SpecCycle == InitCycle /\ [][NextCycle]_vars

InitInfiniteCycle ==
    /\ S \in Lists
    /\ V = NoView
    /\ W = NoView
    /\ cyc = cycle(None)
    /\ rep = NoRepeat
    /\ inp \in [sl : CycleSlices, values : {<<>>}]
    /\ call = NoCall
    /\ ret = ReturnedNone
    /\ old = Snapshot

NextInfiniteCycle == InfiniteCycleGetSlice \/ InfiniteCycleGetItem \/ BaseSetItem
SpecInfiniteCycle == InitInfiniteCycle /\ [][NextInfiniteCycle]_vars

(* ------------------------------ cycle: claims -------------------------- *)
(* C5: for a non-empty base and a slice with start >= 0 (absent start      *)
(* taken as 0), stop >= 0 and step absent or >= 1, cycle(S)[start:stop:    *)
(* step] returns [S[i % len(S)] for i = start, start + step, ... < stop],  *)
(* the empty sequence when start > stop.                                   *)
C5_UnboundedCycleSlice ==
    (/\ call.op = "IC.getslice"
     /\ Len(S) > 0
     /\ OrElse(call.sl.start, 0) >= 0
     /\ call.sl.stop # None
     /\ OrElse(call.sl.stop, 0) >= 0
     /\ OrElse(call.sl.step, 1) >= 1) =>
        LET r == Range(OrElse(call.sl.start, 0), Val(call.sl.stop), OrElse(call.sl.step, 1))
        IN ret = ReturnedSeq([i \in 1..Len(r) |-> S[(r[i] % Len(S)) + 1]])

(* C6: for a non-empty base and n >= 0, C = cycle(S, n) has length n,      *)
(* reads C[k] = S[k % len(S)] for 0 <= k < n, iterates to exactly those n  *)
(* elements in order, and a write C[k] = v sets S[k % len(S)] to v, so     *)
(* that every position congruent to k modulo len(S) then reads v.          *)
C6_BoundedCycle ==
    (cyc.kind = "Cycle" /\ cyc.size >= 0 /\ Len(S) > 0) =>
        LET n == cyc.size
        IN /\ Cycle_len(cyc) = n
           /\ \A k \in 0..(n - 1) :
                  Cycle_getitem(cyc, k, S) = Returned(S[(k % Len(S)) + 1])
           /\ Cycle_iter(cyc, S) = ReturnedSeq([i \in 1..n |-> S[((i - 1) % Len(S)) + 1]])
           /\ (call.op = "C.get" /\ call.key \in 0..(n - 1)) =>
                  ret = Returned(S[(call.key % Len(S)) + 1])
           /\ (call.op = "C.iter") =>
                  ret = ReturnedSeq([i \in 1..n |-> S[((i - 1) % Len(S)) + 1]])
           /\ (call.op = "C.set" /\ call.key \in 0..(n - 1)) =>
                  /\ ret.exc = "none"
                  /\ S[(call.key % Len(S)) + 1] = call.value
                  /\ \A k \in 0..(n - 1) :
                         k % Len(S) = call.key % Len(S) =>
                             Cycle_getitem(cyc, k, S) = Returned(call.value)

C6_Witness ==
    /\ cyc.kind = "Cycle"
    /\ Len(S) = 2
    /\ cyc.size = 3
    /\ call.op = "C.set"
    /\ call.key = 2
    /\ ret.exc = "none"
    /\ S # old.S

(* C9: cycle(sequence, limit) gives an unbounded cycle for an absent       *)
(* limit, a bounded cycle of length limit for limit >= 0, and fails for a  *)
(* negative limit, so that no bounded cycle of negative size exists.       *)
C9_CycleRejectsNegativeLimit ==
    /\ cyc.kind = "Cycle" => cyc.size >= 0
    /\ call.op = "cycle" =>
           /\ call.sl.stop = None => (ret.exc = "none" /\ cyc = InfiniteCycle_init)
           /\ (call.sl.stop # None /\ call.key >= 0) =>
                  (ret.exc = "none" /\ cyc = Cycle_init(call.key))
           /\ (call.sl.stop # None /\ call.key < 0) => ret.exc # "none"

(* ------------------------------ Repetition ----------------------------- *)
Repetition_init(item, times) == [kind |-> "Repetition", value |-> item, times |-> times]
InfiniteRepetition_init(value) == [kind |-> "InfiniteRepetition", value |-> value, times |-> 0]
Repetition_len(r) == r.times

(* repeat(value, times): the view, or the exception raised *)
repeat(value, times) ==
    IF times # None /\ OrElse(times, 0) > 1
    THEN [exc |-> "none", rep |-> Repetition_init(value, Val(times))]
    ELSE IF times = None
    THEN [exc |-> "none", rep |-> InfiniteRepetition_init(value)]
    ELSE [exc |-> "TypeError", rep |-> NoRepeat]

Repetition_getitem(r, key) ==
    LET k == basic_index(Repetition_len(r), key)
    IN IF k.exc # "none" THEN Raise(k.exc) ELSE Returned(r.value)

(* the body of Repetition.__setitem__ *)
RepetitionStoreNothing(r, value) == r
Repetition_store(r, value) == [r EXCEPT !.value = value]

Repetition_setitem(r, key, value) ==
    LET k == basic_index(Repetition_len(r), key)
    IN IF k.exc # "none" THEN [exc |-> k.exc, rep |-> r]
       ELSE [exc |-> "none", rep |-> Repetition_store(r, value)]

(* InfiniteRepetition.__getitem__ with an integer key *)
InfiniteRepetition_getitem(r, key) ==
    IF key < 0 THEN Raise("IndexError") ELSE Returned(r.value)

(* InfiniteRepetition.__setitem__ with an integer key *)
InfiniteRepetitionSetitemUnchecked(r, key, value) ==
    [exc |-> "none", rep |-> [r EXCEPT !.value = value]]
InfiniteRepetition_setitem(r, key, value) ==
    IF key < 0 THEN [exc |-> "IndexError", rep |-> r]
    ELSE [exc |-> "none", rep |-> [r EXCEPT !.value = value]]

(* the elements of a view returned by repeat(), or its exception *)
Materialize(made) ==
    IF made.exc # "none" THEN Raise(made.exc)
    ELSE ReturnedSeq([i \in 1..made.rep.times |-> made.rep.value])

(* InfiniteRepetition.__getitem__ with a slice key *)
InfiniteRepetition_getslice(r, sl) ==
    LET start == OrElse(sl.start, 0)
        step == OrElse(sl.step, 1)
    IN IF start < 0 \/ sl.stop = None \/ OrElse(sl.stop, 0) < 0 THEN Raise("IndexError")
       ELSE IF step = 0 THEN Raise("ValueError")
       ELSE IF (Val(sl.stop) - start) * step <= 0 THEN ReturnedSeq(<<>>)
       ELSE LET stop == IF step > 0
                        THEN Val(sl.stop) + PyMod(step + Val(sl.stop) - start, step)
                        ELSE Val(sl.stop) - PyMod(-step + start - Val(sl.stop), -step)
            IN Materialize(repeat(r.value, Some(PyFloorDiv(stop - start, step))))

(* InfiniteRepetition.__setitem__ with a slice key: start is compared to 0 *)
(* as it is, and None < 0 is a TypeError                                   *)
InfiniteRepetition_setslice(r, sl, value) ==
    LET step == OrElse(sl.step, 1)
    IN IF sl.start = None THEN [exc |-> "TypeError", rep |-> r]
       ELSE IF Val(sl.start) < 0 \/ sl.stop = None \/ OrElse(sl.stop, 0) < 0
       THEN [exc |-> "IndexError", rep |-> r]
       ELSE IF step = 0 THEN [exc |-> "ValueError", rep |-> r]
       ELSE IF (Val(sl.stop) - Val(sl.start)) * step > 0
       THEN IF Len(value) = 0 THEN [exc |-> "IndexError", rep |-> r]
            ELSE [exc |-> "none", rep |-> [r EXCEPT !.value = value[Len(value)]]]
       ELSE [exc |-> "none", rep |-> r]

(* ------------------------- actions on repetitions ---------------------- *)
RepeatKeys == (-MaxSize - 1)..MaxSize
UnboundedKeys == (-1)..MaxKey
RepeatSlices == Slices(-1, MaxStop, OptInts(-MaxStep, MaxStep))
Outcome(r) == IF r.exc = "none" THEN ReturnedNone ELSE Raise(r.exc)

(* rep = repeat(value, times); a call that raises binds nothing *)
RepeatFactory ==
    \E value \in Values, times \in OptInts(-1, MaxSize) :
        LET r == repeat(value, times)
        IN /\ rep' = IF r.exc = "none" THEN r.rep ELSE rep
           /\ call' = Call("repeat", OrElse(times, 0), [NoSlice EXCEPT !.stop = times], value, <<>>)
           /\ ret' = Outcome(r)
           /\ old' = Snapshot
           /\ UNCHANGED <<S, V, W, cyc, inp>>

(* rep[key] on a bounded repetition *)
RepetitionGetItem ==
    \E key \in RepeatKeys :
        /\ rep.kind = "Repetition"
        /\ call' = Call("R.get", key, NoSlice, 0, <<>>)
        /\ ret' = Repetition_getitem(rep, key)
        /\ old' = Snapshot
        /\ UNCHANGED <<S, V, W, cyc, rep, inp>>

(* rep[key] = value on a bounded repetition *)
RepetitionSetItem ==
    \E key \in RepeatKeys, value \in Values :
        LET r == Repetition_setitem(rep, key, value)
        IN /\ rep.kind = "Repetition"
           /\ rep' = r.rep
           /\ call' = Call("R.set", key, NoSlice, value, <<>>)
           /\ ret' = Outcome(r)
           /\ old' = Snapshot
           /\ UNCHANGED <<S, V, W, cyc, inp>>

(* rep[key] on an unbounded repetition *)
InfiniteRepetitionGetItem ==
    \E key \in UnboundedKeys :
        /\ rep.kind = "InfiniteRepetition"
        /\ call' = Call("IR.get", key, NoSlice, 0, <<>>)
        /\ ret' = InfiniteRepetition_getitem(rep, key)
        /\ old' = Snapshot
        /\ UNCHANGED <<S, V, W, cyc, rep, inp>>

(* rep[key] = value on an unbounded repetition *)
InfiniteRepetitionSetItem ==
    \E key \in UnboundedKeys, value \in Values :
        LET r == InfiniteRepetition_setitem(rep, key, value)
        IN /\ rep.kind = "InfiniteRepetition"
           /\ rep' = r.rep
           /\ call' = Call("IR.set", key, NoSlice, value, <<>>)
           /\ ret' = Outcome(r)
           /\ old' = Snapshot
           /\ UNCHANGED <<S, V, W, cyc, inp>>

(* rep[inp.sl] on an unbounded repetition *)
InfiniteRepetitionGetSlice ==
    /\ rep.kind = "InfiniteRepetition"
    /\ call' = Call("IR.getslice", 0, inp.sl, 0, <<>>)
    /\ ret' = InfiniteRepetition_getslice(rep, inp.sl)
    /\ old' = Snapshot
    /\ UNCHANGED <<S, V, W, cyc, rep, inp>>

(* rep[inp.sl] = inp.values on an unbounded repetition *)
InfiniteRepetitionSetSlice ==
    LET r == InfiniteRepetition_setslice(rep, inp.sl, inp.values)
    IN  /\ rep.kind = "InfiniteRepetition"
        /\ rep' = r.rep
        /\ call' = Call("IR.setslice", 0, inp.sl, 0, inp.values)
        /\ ret' = Outcome(r)
        /\ old' = Snapshot
        /\ UNCHANGED <<S, V, W, cyc, inp>>

InitRepeat ==
    /\ S = <<>>
    /\ V = NoView
    /\ W = NoView
    /\ cyc = NoCycle
    /\ rep = NoRepeat
    /\ inp = NoInput
    /\ call = NoCall
    /\ ret = ReturnedNone
    /\ old = Snapshot

NextRepeat ==
    \/ RepeatFactory
    \/ RepetitionGetItem
    \/ RepetitionSetItem
    \/ InfiniteRepetitionGetItem
    \/ InfiniteRepetitionSetItem
SpecRepeat == InitRepeat /\ [][NextRepeat]_vars

InitInfiniteRepeat ==
    /\ S = <<>>
    /\ V = NoView
    /\ W = NoView
    /\ cyc = NoCycle
    /\ \E v \in Values : rep = repeat(v, None).rep
    /\ inp \in [sl : RepeatSlices, values : RhsLists]
    /\ call = NoCall
    /\ ret = ReturnedNone
    /\ old = Snapshot

NextInfiniteRepeat ==
    \/ InfiniteRepetitionGetSlice
    \/ InfiniteRepetitionSetSlice
    \/ InfiniteRepetitionGetItem
    \/ InfiniteRepetitionSetItem
SpecInfiniteRepeat == InitInfiniteRepeat /\ [][NextInfiniteRepeat]_vars

UnboundedSlices == Slices(-1, MaxKey, {None, Some(0), Some(1)})

InitUnbounded ==
    /\ S \in Lists
    /\ V = NoView
    /\ W = NoView
    /\ cyc = cycle(None)
    /\ \E v \in Values : rep = repeat(v, None).rep
    /\ inp \in [sl : UnboundedSlices, values : {<<>>}]
    /\ call = NoCall
    /\ ret = ReturnedNone
    /\ old = Snapshot

NextUnbounded ==
    \/ InfiniteCycleGetItem
    \/ InfiniteCycleGetSlice
    \/ InfiniteRepetitionGetItem
    \/ InfiniteRepetitionSetItem
    \/ InfiniteRepetitionGetSlice
    \/ BaseSetItem
SpecUnbounded == InitUnbounded /\ [][NextUnbounded]_vars

(* ---------------------------- repeat: claims --------------------------- *)
SliceAccepted(sl) ==
    /\ OrElse(sl.start, 0) >= 0
    /\ sl.stop # None
    /\ OrElse(sl.stop, 0) >= 0
    /\ OrElse(sl.step, 1) # 0
SliceLen(sl) == RangeLen(OrElse(sl.start, 0), Val(sl.stop), OrElse(sl.step, 1))

(* C3: for start >= 0 (absent start taken as 0), stop >= 0 and a non-zero  *)
(* step, repeat(v)[start:stop:step] returns exactly                        *)
(* len(range(start, stop, step)) copies of v, for every such length        *)
(* (0, 1 and more) and every step magnitude.                               *)
C3_UnboundedRepeatSliceLength ==
    (call.op = "IR.getslice" /\ SliceAccepted(call.sl)) =>
        ret = ReturnedSeq([i \in 1..SliceLen(call.sl) |-> old.value])

(* C4: slice assignment on an unbounded repetition accepts every slice     *)
(* that slice get accepts (start absent or >= 0, stop present and >= 0,    *)
(* step non-zero): it completes without error, leaving the stored value    *)
(* equal to value[-1] when the progression is non-empty and unchanged      *)
(* when it is empty.                                                       *)
C4_UnboundedRepeatSliceAssignment ==
    (call.op = "IR.setslice" /\ SliceAccepted(call.sl) /\ Len(call.values) > 0) =>
        /\ ret.exc = "none"
        /\ rep.value = IF SliceLen(call.sl) > 0
                       THEN call.values[Len(call.values)]
                       ELSE old.value

(* C7: for R = repeat(v, n) with n > 1, after any integer-index writes     *)
(* R[k] = w at valid k in [-n, n), all n positions read the same value,    *)
(* the most recently written w (v when nothing was written), and len(R)    *)
(* stays n.                                                                *)
C7_SharedSlot ==
    rep.kind = "Repetition" =>
        LET n == rep.times
        IN /\ n > 1
           /\ \A k \in (-n)..(n - 1) : Repetition_getitem(rep, k) = Returned(rep.value)
           /\ (call.op = "repeat" /\ ret.exc = "none") =>
                  (rep.value = call.value /\ Repetition_len(rep) = call.key)
           /\ (call.op = "repeat" /\ ret.exc # "none") =>
                  (rep.value = old.value /\ Repetition_len(rep) = old.times)
           /\ (call.op = "R.set" /\ call.key \in (-n)..(n - 1)) =>
                  (ret.exc = "none" /\ rep.value = call.value /\ Repetition_len(rep) = old.times)
           /\ (call.op = "R.set" /\ call.key \notin (-n)..(n - 1)) =>
                  (ret.exc # "none" /\ rep.value = old.value /\ Repetition_len(rep) = old.times)
           /\ (call.op = "R.get") =>
                  /\ rep.value = old.value
                  /\ Repetition_len(rep) = old.times
                  /\ call.key \in (-n)..(n - 1) => ret = Returned(old.value)

C7_Witness ==
    /\ rep.kind = "Repetition"
    /\ rep.times = 3
    /\ call.op = "R.set"
    /\ call.key = -3
    /\ ret.exc = "none"
    /\ rep.value # old.value

(* C10: on both unbounded views an access relative to the unknown length   *)
(* fails with an IndexError and changes nothing: an integer key < 0 on     *)
(* get (cycle and repeat) and on set (repeat), and a slice get with a      *)
(* negative start, an absent stop or a negative stop; for a key >= 0,      *)
(* cycle(S)[i] = S[i % len(S)] and repeat(v)[i] is the stored value.       *)
RelativeSlice(sl) ==
    OrElse(sl.start, 0) < 0 \/ sl.stop = None \/ OrElse(sl.stop, 0) < 0
Untouched == S = old.S /\ rep.value = old.value

C10_UnboundedRejectsRelativeAccess ==
    /\ (call.op \in {"IC.get", "IR.get", "IR.set"} /\ call.key < 0) =>
           (ret.exc = "IndexError" /\ Untouched)
    /\ (call.op \in {"IC.getslice", "IR.getslice"} /\ RelativeSlice(call.sl)) =>
           (ret.exc = "IndexError" /\ Untouched)
    /\ (call.op = "IC.get" /\ call.key >= 0 /\ Len(S) > 0) =>
           (ret = Returned(S[(call.key % Len(S)) + 1]) /\ Untouched)
    /\ (call.op = "IR.get" /\ call.key >= 0) =>
           (ret = Returned(rep.value) /\ Untouched)
    /\ (call.op = "IR.set" /\ call.key >= 0) =>
           (ret.exc = "none" /\ rep.value = call.value /\ S = old.S)

C10_Witness ==
    /\ call.op = "IR.set"
    /\ call.key < 0
    /\ call.value # rep.value
    /\ ret.exc = "IndexError"
    /\ Len(S) > 0

=============================================================================
